---- MODULE Spec2Model ----
(***************************************************************************)
(* Dynamic-DNS updater: main's interval loop driving                       *)
(* GodaddyDnsRecordManager::run, one action per await point of a cycle.    *)
(* The provider and the public-IP service are the environment: every       *)
(* answer they can give is a nondeterministic choice.                      *)
(***************************************************************************)
EXTENDS Naturals, Sequences, FiniteSets, TLC

VARIABLES
    env,                \* the process environment read by GodaddyConfig::load
    pc,                 \* where main is: boot, tick, get, ip, put, exit, panic
    config,             \* GodaddyDnsRecordManager.config (Option)
    current_record,     \* GodaddyDnsRecordManager.current_record (Option<DnsRecord>)
    current_public_ip,  \* run's local current_public_ip (Option while unresolved)
    result,             \* what manager.run().await evaluated to in main
    errlog,             \* error! lines main wrote for the last cycle
    info,               \* info! lines run wrote in the last cycle
    stdout,             \* println! output of update_arecord_detail in the last cycle
    cache0,             \* current_record when the last cycle started
    reads,              \* GET requests sent in the last cycle
    resolves,           \* public_ip::addr() queries made in the last cycle
    writes,             \* PUT bodies sent in the last cycle, in order
    cmp,                \* the cached data the last cycle compared against (Option)
    readResp,           \* how the provider answered the last cycle's GET
    updResp,            \* how the provider answered the last cycle's PUT
    confirmed,          \* IPs the provider returned from a read or accepted in an update
    prevUpd,            \* the PUT outcome and resolved IP of the cycle before the last
    inflight,           \* calls of run that main started and that have not returned
    okReads             \* GETs that returned a record since the process started

vars == <<env, pc, config, current_record, current_public_ip, result, errlog,
          info, stdout, cache0, reads, resolves, writes, cmp, readResp,
          updResp, confirmed, prevUpd, inflight, okReads>>

----------------------------------------------------------------------------
(* Bounds *)

NumIps == 2
MaxRecords == 2
MaxCount == 2

Min(a, b) == IF a < b THEN a ELSE b

IpPool == <<"10.0.0.1", "203.0.113.5", "2001:db8::1", "2001:db8:0:0:0:0:0:1",
            "198.51.100.7", "192.0.2.9">>
IPs == {IpPool[i] : i \in 1..Min(NumIps, Len(IpPool))}

\* Response bodies the provider may attach to a non-success status.
Bodies == {"", "TOO_MANY_REQUESTS"}

RECURSIVE SeqsUpTo(_, _)
SeqsUpTo(S, n) ==
    IF n = 0 THEN {<<>>}
    ELSE LET shorter == SeqsUpTo(S, n - 1)
         IN  shorter \cup {Append(s, x) : s \in {t \in shorter : Len(t) = n - 1}, x \in S}

----------------------------------------------------------------------------
(* Option<T> as a sequence of length at most one *)

None == <<>>
Some(x) == <<x>>
Option(S) == {None} \cup {Some(x) : x \in S}

----------------------------------------------------------------------------
(* Data model *)

EnvNames == {"API_KEY", "API_SECRET", "BASE_PATH", "RECORD_NAME"}
EnvValues == {"", "set"}

DnsRecord == [data : IPs]

Ttl == 600

\* DnsRecordManagerError variants with their payloads.
UnableToGetPublicIp == [kind |-> "UnableToGetPublicIp", payload |-> ""]
RequestFail(e) == [kind |-> "RequestFail", payload |-> e]
FailToParseResponse(e) == [kind |-> "FailToParseResponse", payload |-> e]
UpdateRecordError(e) == [kind |-> "UpdateRecordError", payload |-> e]
Unexpected(s) == [kind |-> "Unexpected", payload |-> s]

\* The #[error(...)] Display strings.
Display(e) ==
    CASE e.kind = "UnableToGetPublicIp" -> "Unable to get public IP"
      [] e.kind = "RequestFail"         -> "Unable to send request."
      [] e.kind = "FailToParseResponse" -> "Fail to parse reponse: " \o e.payload
      [] e.kind = "UpdateRecordError"   -> "Error response when update record: " \o e.payload
      [] e.kind = "Unexpected"          -> "Unexpected error: " \o e.payload

Ok == [kind |-> "Ok", payload |-> ""]
NotRun == [kind |-> "NotRun", payload |-> ""]
Pending == [kind |-> "Pending", payload |-> ""]

NoResp == [status |-> "none", body |-> None]

----------------------------------------------------------------------------
(* Pure helpers of the cycle *)

\* Mutant: RECORD_NAME is not required and defaults to the empty string.
Load_RecordNameDefaulted(e) ==
    IF \A n \in EnvNames \ {"RECORD_NAME"} : e[n] # None
    THEN Some([api_key     |-> e["API_KEY"][1],
               api_secret  |-> e["API_SECRET"][1],
               base_path   |-> e["BASE_PATH"][1],
               record_name |-> IF e["RECORD_NAME"] = None THEN "" ELSE e["RECORD_NAME"][1]])
    ELSE None

\* GodaddyConfig::load: Ok only when all four variables are present.
Load(e) ==
    IF \A n \in EnvNames : e[n] # None
    THEN Some([api_key     |-> e["API_KEY"][1],
               api_secret  |-> e["API_SECRET"][1],
               base_path   |-> e["BASE_PATH"][1],
               record_name |-> e["RECORD_NAME"][1]])
    ELSE None

\* dns_records.into_iter().next()
FirstRecord(records) == IF records = <<>> THEN None ELSE Some(Head(records))

\* Mutant: the comparison is lost and every resolved address counts as drift.
OutOfDate_Always(ip, record) == TRUE

\* !current_public_ip.eq(&current_record.data)
OutOfDate(ip, record) == ip # record.data

\* Mutant: the body carries the cached data instead of the resolved address.
PutBody_CachedData(new_ip) == <<[data |-> current_record[1].data, ttl |-> Ttl]>>

\* json!([{ "data": new_ip, "ttl": 600 }])
PutBody(new_ip) == <<[data |-> new_ip, ttl |-> Ttl]>>

\* The PUT outcome of the cycle that just ended, as the next cycle remembers it.
UpdStatus(resp) ==
    CASE resp.status = "none" -> "none"
      [] resp.status = "ok"   -> "ok"
      [] OTHER                -> "fail"

\* get_arecord_detail: the error each way of failing the read produces.
GetFailure(cause, body) ==
    CASE cause = "transport" -> RequestFail("error sending request")
      [] cause = "status"    -> IF body = None
                                THEN Unexpected("Reponse is not text")
                                ELSE Unexpected("Error response from Godaddy: " \o body[1])
      [] cause = "parse"     -> FailToParseResponse("error decoding response body")
      [] cause = "empty"     -> Unexpected("Cannot find DNS record.")

\* run: the error of a dereference of an absent cached record.
InternalError == Unexpected("Current record should be set")

\* run's two info! lines that end a successful cycle.
NoChangeNeeded == "DNS record already update to date, does not need to update."
Updated(new_ip) == "Updated DNS record A record to " \o new_ip

Finished == pc \in {"tick", "panic"} /\ result.kind # "NotRun"
Returned == pc = "tick" /\ result.kind \notin {"NotRun", "Pending"}

----------------------------------------------------------------------------
(* Initial state: the process has started, main has not yet built the manager *)

Init ==
    /\ env \in [EnvNames -> Option(EnvValues)]
    /\ pc = "boot"
    /\ config = None
    /\ current_record = None
    /\ current_public_ip = None
    /\ result = NotRun
    /\ errlog = <<>>
    /\ info = <<>>
    /\ stdout = <<>>
    /\ cache0 = None
    /\ reads = 0
    /\ resolves = 0
    /\ writes = <<>>
    /\ cmp = None
    /\ readResp = "none"
    /\ updResp = NoResp
    /\ confirmed = {}
    /\ prevUpd = <<"none", None>>
    /\ inflight = 0
    /\ okReads = 0

cycleVars == <<current_public_ip, result, errlog, info, stdout, cache0, reads,
               resolves, writes, cmp, readResp, updResp, prevUpd>>

\* main, lines 19-22: run returned r; an Err is logged and the loop goes on.
Return(r) ==
    /\ result' = r
    /\ errlog' = IF r.kind = "Ok" THEN errlog ELSE Append(errlog, Display(r))
    /\ inflight' = IF inflight > 0 THEN inflight - 1 ELSE 0
    /\ pc' = "tick"

\* GodaddyDnsRecordManager::new under main's `?`.
Boot ==
    /\ pc = "boot"
    /\ config' = Load(env)
    /\ pc' = IF Load(env) = None THEN "exit" ELSE "tick"
    /\ UNCHANGED <<env, current_record, confirmed, cycleVars, inflight, okReads>>

\* run from its entry to its first await: the GET when a read is needed,
\* the address query otherwise.
BeginRun(needRead) ==
    /\ inflight' = Min(inflight + 1, MaxCount)
    /\ prevUpd' = <<UpdStatus(updResp), current_public_ip>>
    /\ cache0' = current_record
    /\ current_public_ip' = None
    /\ result' = Pending
    /\ errlog' = <<>>
    /\ info' = <<>>
    /\ stdout' = <<>>
    /\ writes' = <<>>
    /\ cmp' = None
    /\ readResp' = "none"
    /\ updResp' = NoResp
    /\ IF needRead
       THEN reads' = 1 /\ resolves' = 0 /\ pc' = "get"
       ELSE reads' = 0 /\ resolves' = 1 /\ pc' = "ip"
    /\ UNCHANGED <<env, config, current_record, confirmed, okReads>>

\* main's loop body: run is called when the tick has fired, and the loop
\* comes back to the tick only when run has returned.
StartCycle(needRead) ==
    /\ pc = "tick"
    /\ BeginRun(needRead)

\* Mutant: the loop does not await run and starts a cycle on every tick.
Tick_NotAwaited ==
    /\ pc \in {"tick", "get", "ip", "put"}
    /\ BeginRun(current_record = None)

\* Mutant: the is_none() test is dropped and every cycle reads the record.
Tick_AlwaysRead == StartCycle(TRUE)

\* Mutant: the read of the first run is skipped and run goes to the resolver.
Tick_ResolveFirst == StartCycle(FALSE)

\* The interval fires and main calls run: `if self.current_record.is_none()`.
Tick == StartCycle(current_record = None)

----------------------------------------------------------------------------
(* get_arecord_detail: the answers to the GET *)

getFrame == <<env, config, current_public_ip, info, stdout, cache0, reads,
              writes, cmp, updResp, prevUpd>>

\* Mutant: the read's error is swallowed and run goes on to the resolver.
GetTransportError_Continues ==
    /\ pc = "get"
    /\ readResp' = "transport"
    /\ resolves' = resolves + 1
    /\ pc' = "ip"
    /\ UNCHANGED <<current_record, confirmed, okReads, result, errlog, inflight, getFrame>>

\* req.send() fails.
GetTransportError ==
    /\ pc = "get"
    /\ readResp' = "transport"
    /\ Return(GetFailure("transport", None))
    /\ UNCHANGED <<current_record, confirmed, resolves, okReads, getFrame>>

\* A non-success status; the body may or may not be readable as text.
GetErrorStatus(body) ==
    /\ pc = "get"
    /\ readResp' = "status"
    /\ Return(GetFailure("status", body))
    /\ UNCHANGED <<current_record, confirmed, resolves, okReads, getFrame>>

\* A success status whose body is not a JSON array of records.
GetUnparsable ==
    /\ pc = "get"
    /\ readResp' = "parse"
    /\ Return(GetFailure("parse", None))
    /\ UNCHANGED <<current_record, confirmed, resolves, okReads, getFrame>>

\* Mutant: the record that was read is not stored in current_record.
GetOk_RecordNotCached(records) ==
    /\ pc = "get"
    /\ IF FirstRecord(records) = None
       THEN /\ readResp' = "empty"
            /\ Return(GetFailure("empty", None))
            /\ UNCHANGED <<confirmed, resolves, okReads>>
       ELSE /\ readResp' = "ok"
            /\ confirmed' = confirmed \cup {FirstRecord(records)[1].data}
            /\ resolves' = resolves + 1
            /\ okReads' = Min(okReads + 1, MaxCount)
            /\ pc' = "ip"
            /\ UNCHANGED <<result, errlog, inflight>>
    /\ UNCHANGED <<current_record, getFrame>>

\* A success status with a collection of records; run goes on to the resolver.
GetOk(records) ==
    /\ pc = "get"
    /\ IF FirstRecord(records) = None
       THEN /\ readResp' = "empty"
            /\ Return(GetFailure("empty", None))
            /\ UNCHANGED <<current_record, confirmed, resolves, okReads>>
       ELSE /\ readResp' = "ok"
            /\ current_record' = FirstRecord(records)
            /\ confirmed' = confirmed \cup {FirstRecord(records)[1].data}
            /\ resolves' = resolves + 1
            /\ okReads' = Min(okReads + 1, MaxCount)
            /\ pc' = "ip"
            /\ UNCHANGED <<result, errlog, inflight>>
    /\ UNCHANGED getFrame

----------------------------------------------------------------------------
(* get_current_public_ip: the answers of the address service *)

\* Mutant: a failed address query drops the cached record.
IpNone_CacheCleared ==
    /\ pc = "ip"
    /\ current_record' = None
    /\ Return(UnableToGetPublicIp)
    /\ UNCHANGED <<env, config, confirmed, current_public_ip,
                   info, stdout, cache0, reads, resolves, writes, cmp,
                   readResp, updResp, prevUpd, okReads>>

\* public_ip::addr() yields None.
IpNone ==
    /\ pc = "ip"
    /\ Return(UnableToGetPublicIp)
    /\ UNCHANGED <<env, config, current_record, confirmed, current_public_ip,
                   info, stdout, cache0, reads, resolves, writes, cmp,
                   readResp, updResp, prevUpd, okReads>>

\* public_ip::addr() yields an address: compare, and send the PUT on drift.
IpSome(ip) ==
    /\ pc = "ip"
    /\ current_public_ip' = Some(ip)
    /\ IF current_record = None
       THEN /\ Return(InternalError)
            /\ UNCHANGED <<info, stdout, writes, cmp>>
       ELSE /\ cmp' = Some(current_record[1].data)
            /\ IF OutOfDate(ip, current_record[1])
               THEN /\ info' = Append(info, "DNS record out of date")
                    /\ writes' = Append(writes, PutBody(ip))
                    /\ stdout' = Append(stdout, "req is: ...")
                    /\ pc' = "put"
                    /\ UNCHANGED <<result, errlog, inflight>>
               ELSE /\ info' = Append(info, NoChangeNeeded)
                    /\ Return(Ok)
                    /\ UNCHANGED <<stdout, writes>>
    /\ UNCHANGED <<env, config, current_record, confirmed, cache0, reads,
                   resolves, readResp, updResp, prevUpd, okReads>>

----------------------------------------------------------------------------
(* update_arecord_detail: the answers to the PUT *)

putFrame == <<env, config, okReads, current_public_ip, cache0, reads, resolves, writes,
              cmp, readResp, prevUpd>>

\* Mutant: the cached data is overwritten before the PUT's outcome is known.
PutTransportError_CacheAdvanced ==
    /\ pc = "put"
    /\ updResp' = [status |-> "transport", body |-> None]
    /\ current_record' = Some([current_record[1] EXCEPT !.data = current_public_ip[1]])
    /\ Return(RequestFail("error sending request"))
    /\ UNCHANGED <<confirmed, info, stdout, putFrame>>

\* Mutant: a PUT that could not be sent is sent once more within the cycle.
PutTransportError_Retried ==
    /\ pc = "put"
    /\ updResp' = [status |-> "transport", body |-> None]
    /\ IF Len(writes) < 2
       THEN /\ writes' = Append(writes, PutBody(current_public_ip[1]))
            /\ UNCHANGED <<pc, result, errlog, inflight>>
       ELSE /\ Return(RequestFail("error sending request"))
            /\ UNCHANGED writes
    /\ UNCHANGED <<env, config, okReads, current_public_ip, cache0, reads,
                   resolves, cmp, readResp, prevUpd, current_record,
                   confirmed, info, stdout>>

\* Mutant: a failed PUT invalidates the cached record.
PutTransportError_CacheCleared ==
    /\ pc = "put"
    /\ updResp' = [status |-> "transport", body |-> None]
    /\ current_record' = None
    /\ Return(RequestFail("error sending request"))
    /\ UNCHANGED <<confirmed, info, stdout, putFrame>>

\* req.send() fails.
PutTransportError ==
    /\ pc = "put"
    /\ updResp' = [status |-> "transport", body |-> None]
    /\ Return(RequestFail("error sending request"))
    /\ UNCHANGED <<current_record, confirmed, info, stdout, putFrame>>

\* Mutant: the status is not checked before the cached data is overwritten.
PutErrorStatus_CacheAdvanced(body) ==
    /\ pc = "put"
    /\ updResp' = [status |-> "error", body |-> body]
    /\ current_record' = Some([current_record[1] EXCEPT !.data = current_public_ip[1]])
    /\ IF body = None
       THEN /\ pc' = "panic"
            /\ UNCHANGED <<result, errlog, stdout, inflight>>
       ELSE /\ stdout' = Append(stdout, "data is " \o body[1])
            /\ Return(UpdateRecordError("\"\""))
    /\ UNCHANGED <<confirmed, info, putFrame>>

\* A non-success status: the body is printed with text().await.unwrap(),
\* which panics when the body cannot be read.
PutErrorStatus(body) ==
    /\ pc = "put"
    /\ updResp' = [status |-> "error", body |-> body]
    /\ IF body = None
       THEN /\ pc' = "panic"
            /\ UNCHANGED <<result, errlog, stdout, inflight>>
       ELSE /\ stdout' = Append(stdout, "data is " \o body[1])
            /\ Return(UpdateRecordError("\"\""))
    /\ UNCHANGED <<current_record, confirmed, info, putFrame>>

\* Mutant: the accepted address is never stored in the cached record.
PutOk_CacheNotAdvanced ==
    /\ pc = "put"
    /\ updResp' = [status |-> "ok", body |-> None]
    /\ confirmed' = confirmed \cup {current_public_ip[1]}
    /\ info' = Append(info, Updated(current_public_ip[1]))
    /\ Return(Ok)
    /\ UNCHANGED <<current_record, stdout, putFrame>>

\* A success status: only now is the cached data overwritten.
PutOk ==
    /\ pc = "put"
    /\ updResp' = [status |-> "ok", body |-> None]
    /\ confirmed' = confirmed \cup {current_public_ip[1]}
    /\ IF current_record = None
       THEN /\ Return(InternalError)
            /\ UNCHANGED <<current_record, info>>
       ELSE /\ current_record' = Some([current_record[1] EXCEPT !.data = current_public_ip[1]])
            /\ info' = Append(info, Updated(current_public_ip[1]))
            /\ Return(Ok)
    /\ UNCHANGED <<stdout, putFrame>>

----------------------------------------------------------------------------

Next ==
    \/ Boot
    \/ Tick
    \/ GetTransportError
    \/ \E body \in Option(Bodies) : GetErrorStatus(body)
    \/ GetUnparsable
    \/ \E records \in SeqsUpTo(DnsRecord, MaxRecords) : GetOk(records)
    \/ IpNone
    \/ \E ip \in IPs : IpSome(ip)
    \/ PutTransportError
    \/ \E body \in Option(Bodies) : PutErrorStatus(body)
    \/ PutOk

Spec == Init /\ [][Next]_vars

\* The loop never stops by itself: the interval keeps firing and every
\* awaited call is eventually answered.
LiveSpec == Spec /\ WF_vars(Next)

----------------------------------------------------------------------------
(* Properties of the reconciliation cycle *)

WriteFailed == updResp.status \in {"transport", "error"}

\* C1: whenever a record is cached, its data is a value the provider returned
\* from a successful read or accepted in a successful update.
C1_CacheOnlyConfirmed ==
    current_record # None => current_record[1].data \in confirmed

\* C1 witness: a cycle ended on a failed write of an address that differs from
\* the cached data, after an earlier update had been accepted.
C1_Witness ==
    /\ Finished
    /\ WriteFailed
    /\ current_record # None
    /\ current_public_ip # Some(current_record[1].data)
    /\ Cardinality(confirmed) >= 2

\* C2: a cycle that started with cached data A and whose write of B # A failed
\* leaves the cached record as it was, and the cycle after a failed write of B
\* that resolves B again sends the write of B again.
C2_FailedWriteKeepsCacheAndRetries ==
    /\ (Finished /\ cache0 # None /\ WriteFailed) => current_record = cache0
    /\ (prevUpd[1] = "fail" /\ current_public_ip # None /\ current_public_ip = prevUpd[2])
          => writes = <<PutBody(current_public_ip[1])>>

\* C2 witness: the cycle after a failed write of B resolved B again, sent the
\* write again, and that write failed again with the cached record kept.
C2_Witness ==
    /\ Finished
    /\ cache0 # None
    /\ prevUpd[1] = "fail"
    /\ current_public_ip = prevUpd[2]
    /\ Len(writes) = 1
    /\ WriteFailed
    /\ current_record = cache0

\* C3: when the update of B is accepted the cached data is B at the end of the
\* cycle, and the next cycle, if it resolves B, returns Ok with no write and
\* the no-change log line.
C3_AcceptedWriteAdvancesCache ==
    /\ (Finished /\ updResp.status = "ok")
          => current_record = Some([data |-> current_public_ip[1]])
    /\ (prevUpd[1] = "ok" /\ current_public_ip # None /\ current_public_ip = prevUpd[2])
          => /\ Returned
             /\ result = Ok
             /\ writes = <<>>
             /\ info = <<NoChangeNeeded>>
             /\ current_record = cache0

\* C3 witness: the cycle after an accepted update of B resolved B and ended.
C3_Witness ==
    /\ Returned
    /\ prevUpd[1] = "ok"
    /\ current_public_ip # None
    /\ current_public_ip = prevUpd[2]
    /\ result = Ok

\* C4: once a cycle has resolved B against cached data A # B, exactly one PUT
\* has been sent in that cycle and its body carries B.
C4_DriftWritesOnce ==
    (current_public_ip # None /\ cmp # None /\ cmp # current_public_ip)
        => writes = <<PutBody(current_public_ip[1])>>

\* C4 witness: a cycle that found drift has ended, whatever the PUT's outcome.
C4_Witness ==
    /\ Finished
    /\ cache0 # None
    /\ cmp = Some(cache0[1].data)
    /\ current_public_ip # None
    /\ cmp # current_public_ip
    /\ Len(writes) = 1

\* C5: a cycle whose resolved address equals the cached data sends no PUT,
\* leaves the cached record unchanged and returns Ok as NoChangeNeeded.
C5_NoOpCycle ==
    (current_public_ip # None /\ cmp = current_public_ip)
        => /\ Returned
           /\ result = Ok
           /\ writes = <<>>
           /\ updResp = NoResp
           /\ info = <<NoChangeNeeded>>
           /\ current_record = Some([data |-> cmp[1]])
           /\ (cache0 # None => current_record = cache0)

\* C5 witness: a cycle that started with cached X resolved X and returned.
C5_Witness ==
    /\ Returned
    /\ cache0 # None
    /\ current_public_ip = Some(cache0[1].data)
    /\ cmp = current_public_ip

\* C6: a cycle that starts with no cached record sends exactly one GET, before
\* the address query and before any comparison; when the answer is an empty
\* collection the cycle returns the cannot-find-record error, with no address
\* query and no PUT.
C6_FirstRunReadsOnce ==
    /\ (result.kind # "NotRun" /\ cache0 = None)
          => /\ reads = 1
             /\ (pc = "get" => resolves = 0 /\ current_public_ip = None /\ cmp = None)
             /\ (resolves > 0 => readResp = "ok")
             /\ (cmp # None => readResp = "ok")
    /\ readResp = "empty"
          => /\ Returned
             /\ result = Unexpected("Cannot find DNS record.")
             /\ errlog = <<"Unexpected error: Cannot find DNS record.">>
             /\ resolves = 0
             /\ writes = <<>>
             /\ current_record = None

\* C6 witness: a first run sent its one GET and got an empty collection.
C6_Witness ==
    /\ Returned
    /\ cache0 = None
    /\ readResp = "empty"
    /\ reads = 1

\* C7: a cycle that starts with a cached record and whose address query fails
\* sends no GET and no PUT, returns UnableToGetPublicIp and leaves the cached
\* record unchanged.
C7_ResolverFailureShortCircuits ==
    (Finished /\ cache0 # None /\ resolves = 1 /\ current_public_ip = None)
        => /\ Returned
           /\ result = UnableToGetPublicIp
           /\ reads = 0
           /\ readResp = "none"
           /\ writes = <<>>
           /\ updResp = NoResp
           /\ current_record = cache0

\* C7 witness: such a cycle has ended.
C7_Witness ==
    /\ Returned
    /\ cache0 # None
    /\ resolves = 1
    /\ current_public_ip = None
    /\ result = UnableToGetPublicIp

\* C8: no failure inside a cycle terminates the process; every failed cycle
\* returns an error to the loop, which logs it and waits for the next tick.
C8_CycleFailureNeverTerminates ==
    /\ pc # "panic"
    /\ (Finished /\ result # Ok) => (Returned /\ errlog = <<Display(result)>>)

\* C9: when the provider answers the PUT with a non-success status, the cycle
\* returns UpdateRecordError whose payload is the response body.
C9_UpdateRejectedCarriesBody ==
    (Returned /\ updResp.status = "error")
        => /\ result.kind = "UpdateRecordError"
           /\ result.payload = updResp.body[1]

ReadFailureCauses == {"transport", "parse", "empty"}

\* C10: the three read failures (transport, unparsable payload, empty
\* collection) have pairwise distinct kinds, and the kind of the empty-collection
\* failure is the kind of no other failure a cycle can return.
C10_ReadFailureKindsDistinct ==
    (Returned /\ readResp \in ReadFailureCauses)
        => /\ result = GetFailure(readResp, None)
           /\ \A c \in ReadFailureCauses \ {readResp} :
                  GetFailure(c, None).kind # result.kind
           /\ readResp = "empty"
                 => /\ result.kind # InternalError.kind
                    /\ \A b \in Option(Bodies) : result.kind # GetFailure("status", b).kind
                    /\ result.kind # UnableToGetPublicIp.kind
                    /\ result.kind # UpdateRecordError("").kind

----------------------------------------------------------------------------
(* Startup configuration *)

\* C11: when any of the four environment variables is absent the manager is
\* never built, main ends with the configuration error and no cycle, GET,
\* address query or PUT ever happens.
C11_MissingEnvNeverStartsLoop ==
    (\E n \in EnvNames : env[n] = None)
        => /\ pc \in {"boot", "exit"}
           /\ config = None
           /\ result = NotRun
           /\ reads = 0
           /\ resolves = 0
           /\ writes = <<>>
           /\ current_record = None
           /\ current_public_ip = None

\* C11 witness: main has ended at startup with only RECORD_NAME absent.
C11_Witness ==
    /\ pc = "exit"
    /\ env["RECORD_NAME"] = None
    /\ \A n \in EnvNames \ {"RECORD_NAME"} : env[n] = Some("set")

\* C12: whenever a manager exists, its four configuration fields are
\* non-empty strings.
C12_ConfigFieldsNonEmpty ==
    config # None
        => /\ config[1].api_key # ""
           /\ config[1].api_secret # ""
           /\ config[1].base_path # ""
           /\ config[1].record_name # ""

----------------------------------------------------------------------------
(* Scheduling of cycles *)

InCycle == pc \in {"get", "ip", "put"}

\* C13: at most one call of run is in flight at any time, and main starts a
\* call of run only from the tick, when no earlier call is still in flight.
C13_OneCycleInFlight ==
    /\ [](/\ inflight <= 1
          /\ InCycle => inflight = 1
          /\ pc \in {"boot", "tick", "exit"} => inflight = 0)
    /\ [][inflight' > inflight => (pc = "tick" /\ inflight = 0 /\ result # Pending)]_vars

\* C13 witness: a second cycle is in flight after the first returned an error.
C13_Witness ==
    /\ InCycle
    /\ inflight = 1
    /\ prevUpd[1] = "fail"

----------------------------------------------------------------------------
(* Failed cycles and the life of the cached record *)

ReadFailed == readResp \in {"transport", "status", "parse", "empty"}

ResolveFailed == Finished /\ resolves = 1 /\ current_public_ip = None

\* C14: when the GET of step 1 fails, for whichever reason, the cycle returns
\* that error with no address query and no PUT, no record is cached, and the
\* next cycle starts with the GET again.
C14_ReadFailureAborts ==
    /\ [](ReadFailed
            => /\ Returned
               /\ result \in {GetFailure(readResp, b) : b \in Option(Bodies)}
               /\ errlog = <<Display(result)>>
               /\ resolves = 0
               /\ current_public_ip = None
               /\ cmp = None
               /\ writes = <<>>
               /\ current_record = None)
    /\ [][(ReadFailed /\ pc' # pc) => (pc' = "get" /\ reads' = 1 /\ cache0' = None)]_vars

\* C14 witness: a first cycle ended on a non-success status of the GET.
C14_Witness ==
    /\ Returned
    /\ readResp = "status"
    /\ cache0 = None
    /\ result = GetFailure("status", Some("TOO_MANY_REQUESTS"))

\* C15 as stated: after every cycle whose address query failed, the cached
\* record is what it was when the cycle started, absent or present.
C15_ResolveFailureRestoresStart ==
    ResolveFailed
        => /\ Returned
           /\ result = UnableToGetPublicIp
           /\ current_record = cache0

\* C15 amended: a cycle whose address query failed returns UnableToGetPublicIp
\* with no PUT and leaves the cached record as it was when the address was
\* queried: the record of the cycle's start when the cycle started with one,
\* the record just read when it started with none.
C15_ResolveFailureKeepsCache ==
    /\ [](ResolveFailed
            => /\ Returned
               /\ result = UnableToGetPublicIp
               /\ writes = <<>>
               /\ cache0 # None => current_record = cache0
               /\ cache0 = None => (readResp = "ok" /\ current_record # None))
    /\ [][(pc = "ip" /\ pc' = "tick" /\ current_public_ip' = None)
            => current_record' = current_record]_vars

\* C15 witness: a cycle that started with no record read one and then failed
\* to resolve the address.
C15_Witness ==
    /\ Returned
    /\ cache0 = None
    /\ resolves = 1
    /\ current_public_ip = None
    /\ current_record # None

\* C16: at most one GET ever returns a record; a cycle that starts with a
\* cached record sends no GET; a cached record is never dropped, is created
\* only by the first successful GET, and its data changes only to the resolved
\* address when a PUT is accepted.
C16_CachedRecordLifecycle ==
    /\ [](/\ okReads <= 1
          /\ (current_record # None) <=> (okReads = 1)
          /\ (result.kind # "NotRun" /\ cache0 # None) => (reads = 0 /\ readResp = "none"))
    /\ [][/\ current_record # None => current_record' # None
          /\ (current_record = None /\ current_record' # None)
                => (pc = "get" /\ readResp' = "ok" /\ okReads = 0)
          /\ (current_record # None /\ current_record' # current_record)
                => /\ pc = "put"
                   /\ updResp'.status = "ok"
                   /\ current_record' = Some([data |-> current_public_ip[1]])]_vars

\* C16 witness: in a process that read its record once, a later cycle had its
\* PUT accepted after the cycle before it had its PUT fail.
C16_Witness ==
    /\ Returned
    /\ okReads = 1
    /\ cache0 # None
    /\ prevUpd[1] = "fail"
    /\ updResp.status = "ok"
    /\ current_record # cache0

----------------------------------------------------------------------------
(* One attempt per call, no state carried over, no internal error *)

\* What a returned cycle's result must be, from the record the cycle started
\* with and the answers of that cycle's own calls.
ExpectedResults ==
    IF cache0 = None /\ readResp # "ok"
    THEN IF ReadFailed THEN {GetFailure(readResp, b) : b \in Option(Bodies)} ELSE {}
    ELSE IF current_public_ip = None THEN {UnableToGetPublicIp}
    ELSE IF cmp = current_public_ip THEN {Ok}
    ELSE CASE updResp.status = "ok"        -> {Ok}
           [] updResp.status = "transport" -> {RequestFail("error sending request")}
           [] updResp.status = "error"     -> {UpdateRecordError("\"\"")}
           [] OTHER                        -> {}

\* C17: a cycle sends at most one GET, one address query and one PUT, in that
\* order, and its result is determined by the record it started with and the
\* answers to its own calls, whatever the cycles before it did.
C17_NoRetryNoCarriedState ==
    /\ reads <= 1
    /\ resolves <= 1
    /\ Len(writes) <= 1
    /\ pc = "get" => (resolves = 0 /\ writes = <<>>)
    /\ pc = "ip" => writes = <<>>
    /\ resolves = 1 => ((cache0 # None /\ reads = 0) \/ (reads = 1 /\ readResp = "ok"))
    /\ Len(writes) = 1 => (resolves = 1 /\ current_public_ip # None /\ cmp # None)
    /\ Returned => result \in ExpectedResults

\* C17 witness: the cycle after a cycle whose PUT failed made one address
\* query and one PUT, no GET, and had its PUT fail in turn.
C17_Witness ==
    /\ Returned
    /\ prevUpd[1] = "fail"
    /\ reads = 0
    /\ resolves = 1
    /\ Len(writes) = 1
    /\ updResp.status = "transport"

\* C19: the error "Current record should be set" is never returned: a record
\* is cached at the comparison and when the data is overwritten.
C19_InternalErrorUnreachable ==
    /\ result # InternalError
    /\ errlog # <<Display(InternalError)>>
    /\ pc \in {"ip", "put"} => current_record # None
    /\ cmp # None => current_record # None

\* C19 witness: a cycle passed both dereferences, the comparison and the
\* overwrite after an accepted PUT.
C19_Witness ==
    /\ Returned
    /\ cmp # None
    /\ updResp.status = "ok"
    /\ result = Ok
    /\ current_record = Some([data |-> current_public_ip[1]])

----------------------------------------------------------------------------
(* Convergence *)

\* From this step on the environment is healthy and the public address is B:
\* a GET returns a record, the address query returns B, a PUT is accepted.
Settled(B) ==
    /\ pc = "get" => readResp' = "ok"
    /\ pc = "ip" => current_public_ip' = Some(B)
    /\ pc = "put" => updResp'.status = "ok"

\* The cached data is B, the provider returned or accepted B, and cycles send
\* no PUT.
Converged(B) ==
    /\ current_record = Some([data |-> B])
    /\ B \in confirmed
    /\ writes = <<>>
    /\ pc \in {"tick", "ip"}

\* C18: when the loop was started and, from some point on, every call succeeds
\* and the public address stays B, then from some point on the cached data is
\* B, the provider holds B and every cycle is a no-op.
C18_EventuallyInSync ==
    Load(env) # None
        => \A B \in IPs : (<>[][Settled(B)]_vars) => <>[]Converged(B)

\* The same, for the runs in which the process does not panic.
C18_EventuallyInSyncUnlessPanic ==
    Load(env) # None
        => \A B \in IPs : ((<>[][Settled(B)]_vars) /\ [](pc # "panic")) => <>[]Converged(B)

====
